---- MODULE Spec2Model ----
(***************************************************************************)
(* Save-and-publish pipeline of obsidian-synapsis.                         *)
(*                                                                         *)
(* Two implementations of the HTTP handlers live in the repository: the    *)
(* monolithic application (main.py) and the layered one (controllers/ +    *)
(* services/).  Both are modelled; request.app says which one serves the   *)
(* request.                                                                *)
(*                                                                         *)
(* Strings are sequences of one-character tokens.  "TS" stands for the     *)
(* fifteen characters of strftime("%Y%m%d_%H%M%S") and "md" for the        *)
(* extension; neither contains a separator or a dot.                       *)
(***************************************************************************)
EXTENDS Integers, Sequences, FiniteSets, TLC

\* ------------------------------------------------------------------ bounds
MaxLen == 3          \* longest caller-supplied file name
MaxStreamLen == 2    \* longest output stream of a child process

\* ----------------------------------------------------------------- strings
Sep == "/"
Dot == "."
Chars == {"a", Dot, Sep}

SeqsUpTo(S, n) == UNION {[1..k -> S] : k \in 0..n}

Names == SeqsUpTo(Chars, MaxLen)

RECURSIVE Split(_)
\* s.split("/"): the separator-free runs of s, empty ones included
Split(s) ==
  IF \A i \in 1..Len(s) : s[i] # Sep THEN <<s>>
  ELSE LET i == CHOOSE k \in 1..Len(s) :
                  s[k] = Sep /\ \A j \in 1..(k-1) : s[j] # Sep
       IN <<SubSeq(s, 1, i-1)>> \o Split(SubSeq(s, i+1, Len(s)))

\* pathlib: the parsed parts of a path; empty and "." components are dropped
PathParts(s) == SelectSeq(Split(s), LAMBDA c : c # <<>> /\ c # <<Dot>>)

\* pathlib: a path is absolute when it starts with a separator
IsAbsolute(s) == Len(s) > 0 /\ s[1] = Sep

\* Path(s).name: the last part, "" when there is none
PathName(s) == LET p == PathParts(s) IN IF p = <<>> THEN <<>> ELSE p[Len(p)]

HasSep(s) == \E i \in 1..Len(s) : s[i] = Sep

\* --------------------------------------------------------- filename policy
\* FileService.generate_filename(prefix)
generate_filename(prefix) ==
  IF prefix # <<>> THEN prefix \o <<"_", "TS", Dot, "md">>
  ELSE <<"TS", Dot, "md">>

\* FileService.sanitize_filename(filename): ok = FALSE is HTTPException(400)
sanitize_filename(filename) ==
  LET safe_filename == PathName(filename)
  IN IF safe_filename = <<>> THEN [ok |-> FALSE, name |-> <<>>]
     ELSE [ok |-> TRUE, name |-> safe_filename]

\* -------------------------------------------------------------- file system
\* Paths are sequences of components below the file-system root.
BASE_DIR == << <<"app">> >>
DATA_DIR == BASE_DIR \o << <<"data">> >>

\* the mode registry (modes_config.json): ids are arbitrary strings
Modes == {
  [id |-> <<"g">>, save_dir |-> <<"g">>, name |-> <<"G">>],
  [id |-> <<"a", Sep, "b">>, save_dir |-> <<"m">>, name |-> <<"M">>],
  [id |-> <<Dot, Dot, Sep, Dot, Dot, Sep, "x">>, save_dir |-> <<"x">>,
   name |-> <<"X">>] }

ModeIds == {m.id : m \in Modes}
UnknownModeId == <<"u">>

ModeDir(m) == DATA_DIR \o <<m.save_dir>>

\* the directories that exist once startup has run
Dirs == {<<>>, BASE_DIR, DATA_DIR} \cup {ModeDir(m) : m \in Modes}

Parent(p) == IF p = <<>> THEN <<>> ELSE SubSeq(p, 1, Len(p) - 1)

RECURSIVE Walk(_, _)
\* the directory reached from cur through the components cs;
\* found = FALSE when a component is not an existing directory
Walk(cur, cs) ==
  IF cs = <<>> THEN [found |-> TRUE, dir |-> cur]
  ELSE IF Head(cs) = <<Dot, Dot>> THEN Walk(Parent(cur), Tail(cs))
  ELSE IF (cur \o <<Head(cs)>>) \in Dirs
       THEN Walk(cur \o <<Head(cs)>>, Tail(cs))
       ELSE [found |-> FALSE, dir |-> cur]

\* (dir / name).write_text(content): io_error is an I/O error of the
\* device (disk full, permission denied).  ok = FALSE is an OSError.
write_text(dir, name, io_error) ==
  LET cs     == PathParts(name)
      start  == IF IsAbsolute(name) THEN <<>> ELSE dir
      w      == Walk(start, Parent(cs))
      last   == cs[Len(cs)]
      target == w.dir \o <<last>>
  IN IF cs = <<>> \/ ~w.found THEN [ok |-> FALSE, path |-> <<>>]
     ELSE IF last = <<Dot, Dot>> \/ target \in Dirs \/ io_error
          THEN [ok |-> FALSE, path |-> <<>>]
          ELSE [ok |-> TRUE, path |-> target]

\* ---------------------------------------------------- child-process output
\* Output streams are byte sequences.  "N" stands for the bytes of the
\* text "nothing to commit", "x" for any other well-formed text, and "BAD"
\* for a byte sequence that is not valid UTF-8.
Bytes == {"N", "x", "BAD"}
Streams == SeqsUpTo(Bytes, MaxStreamLen)
Reports == {<<>>, <<"N">>}
RCs == {0, 1}
Steps == <<"add", "commit", "push">>

\* bytes.decode("utf-8"): ok = FALSE is UnicodeDecodeError
decode(bytes) ==
  [ok |-> \A i \in 1..Len(bytes) : bytes[i] # "BAD", text |-> bytes]

\* "nothing to commit" in text
HasPhrase(text) == \E i \in 1..Len(text) : text[i] = "N"

\* ---------------------------------------------------------- publish outcome
NoError == [none |-> TRUE, msg |-> "", detail |-> <<>>]
Error(msg, detail) == [none |-> FALSE, msg |-> msg, detail |-> detail]

\* `return ok, error`
Returned(ok, error) == [kind |-> "return", ok |-> ok, error |-> error]
\* an exception leaving the coroutine
Raised(e) == [kind |-> "raise", ok |-> FALSE, error |-> Error("raised", <<e>>)]
NoOutcome == [kind |-> "none", ok |-> FALSE, error |-> NoError]

\* no except clause: the exception leaves publish
on_exception_propagated(e) == Raised(e)

\* except Exception as e: return False, f"git operation error: {str(e)}"
on_exception(e) == Returned(FALSE, Error("git operation error", <<e>>))

Continue == [stop |-> FALSE, outcome |-> NoOutcome]
Stop(outcome) == [stop |-> TRUE, outcome |-> outcome]

\* a failed git add is returned without an error string
add_verdict_silent(returncode) ==
  IF returncode # 0 THEN Stop(Returned(FALSE, NoError)) ELSE Continue

\* the return code of git add is not looked at
add_verdict_unchecked(returncode) == Continue

\* if add_process.returncode != 0: return False, "git add failed"
add_verdict(returncode) ==
  IF returncode # 0 THEN Stop(Returned(FALSE, Error("git add failed", <<>>)))
  ELSE Continue

\* every non-zero exit of git commit is a failure
commit_verdict_strict(returncode, stderr) ==
  IF returncode # 0
  THEN LET d == decode(stderr)
       IN IF ~d.ok THEN Stop(on_exception("decode"))
          ELSE Stop(Returned(FALSE, Error("git commit failed", d.text)))
  ELSE Continue

\* the branch taken after commit_process.communicate()
commit_verdict(returncode, stderr) ==
  IF returncode # 0
  THEN LET d == decode(stderr)
       IN IF ~d.ok THEN Stop(on_exception("decode"))
          ELSE IF HasPhrase(d.text) THEN Stop(Returned(TRUE, NoError))
          ELSE Stop(Returned(FALSE, Error("git commit failed", d.text)))
  ELSE Continue

\* the branch taken after push_process.communicate()
push_verdict(returncode, stderr) ==
  IF returncode # 0
  THEN LET d == decode(stderr)
       IN IF ~d.ok THEN Stop(on_exception("decode"))
          ELSE Stop(Returned(FALSE, Error("git push failed", d.text)))
  ELSE Stop(Returned(TRUE, NoError))

\* ---------------------------------------------------------------- requests
NoName == [given |-> FALSE, name |-> <<>>]
OptNames == {NoName} \cup {[given |-> TRUE, name |-> n] : n \in Names}

SaveRequests(app) ==
  {[app |-> app, route |-> "save", filename |-> f, mode_id |-> <<>>] :
     f \in OptNames}
AskRequests(app) ==
  {[app |-> app, route |-> "ask-ai", filename |-> f, mode_id |-> m] :
     f \in OptNames, m \in ModeIds \cup {UnknownModeId}}
NoRequest ==
  [app |-> "", route |-> "", filename |-> NoName, mode_id |-> <<>>]

\* `if request.filename:` -- None and "" are both falsy
Truthy(f) == f.given /\ f.name # <<>>

Unset == [set |-> FALSE, val |-> <<>>]
Set(v) == [set |-> TRUE, val |-> v]

\* an unknown id falls back to the mode "g"
get_mode_by_id_fallback(mode_id) ==
  IF \E m \in Modes : m.id = mode_id THEN {m \in Modes : m.id = mode_id}
  ELSE {m \in Modes : m.id = <<"g">>}

\* Config.get_mode_by_id / get_mode_by_id: the mode with that id, if any
get_mode_by_id(mode_id) == {m \in Modes : m.id = mode_id}

\* What a handler has done when it reaches its first suspension point:
\* status 0 means that it goes on (to publish, or to its 200 response).
Plan(status, resolved, written, ai_calls) ==
  [status |-> status, resolved |-> resolved, written |-> written,
   ai_calls |-> ai_calls, detail |-> <<>>, upstream_error |-> Unset]

\* the same, ended by HTTPException(status_code=status, detail=detail)
Rejected(status, detail, ai_calls, resolved) ==
  [status |-> status, resolved |-> resolved, written |-> Unset,
   ai_calls |-> ai_calls, detail |-> detail, upstream_error |-> Unset]

\* what the upstream language-model API can answer a call with: a
\* completion (Unset) or a failure with its diagnostic text
Diagnostics == {<<"timeout">>, <<"quota">>}
Upstream == {Unset} \cup {Set(d) : d \in Diagnostics}

\* the detail carries no diagnostic
ai_error_detail_generic(e) == <<"AI error">>

\* detail=f"AI処理中にエラーが発生しました: {e!s}"
ai_error_detail(e) == <<"AI error: ">> \o e

\* AIService.ask raised (ai_service.py), or the except clause of main.py
\* ask_ai caught the failure of the upstream call
UpstreamFailed(ai) ==
  [status |-> 500, resolved |-> Unset, written |-> Unset, ai_calls |-> 1,
   detail |-> ai_error_detail(ai.val), upstream_error |-> ai]

\* controllers/save_controller.py save_file, up to the call of publish
save_file(req, io_error) ==
  LET s == sanitize_filename(req.filename.name)
  IN IF Truthy(req.filename) /\ ~s.ok
     THEN Rejected(400, <<"invalid filename">>, 0, Unset)
     ELSE LET filename == IF Truthy(req.filename) THEN s.name
                          ELSE generate_filename(<<>>)
              w == write_text(DATA_DIR, filename, io_error)
          IN IF ~w.ok
             THEN Rejected(500, <<"file save failed">>, 0, Set(filename))
             ELSE Plan(0, Set(filename), Set(w.path), 0)

\* main.py save_file, up to the call of publish
main_save_file(req, io_error) ==
  LET filename == IF Truthy(req.filename) THEN req.filename.name
                  ELSE <<"TS", Dot, "md">>
      safe_filename == PathName(filename)
      w == write_text(DATA_DIR, safe_filename, io_error)
  IN IF safe_filename = <<>>
     THEN Rejected(400, <<"invalid filename">>, 0, Unset)
     ELSE IF ~w.ok
     THEN Rejected(500, <<"file save failed">>, 0, Set(safe_filename))
     ELSE Plan(0, Set(safe_filename), Set(w.path), 0)

\* controllers/ai_controller.py ask_ai, up to the call of publish;
\* ai is the answer of the upstream call (a failure: AIService.ask, 500)
ask_ai(req, ai, io_error) ==
  LET found == get_mode_by_id(req.mode_id)
      mode == CHOOSE m \in found : TRUE
      s == sanitize_filename(req.filename.name)
  IN IF found = {} THEN Rejected(400, <<"invalid mode id">>, 0, Unset)
     ELSE IF ai.set THEN UpstreamFailed(ai)
     ELSE IF Truthy(req.filename) /\ ~s.ok
     THEN Rejected(400, <<"invalid filename">>, 1, Unset)
     ELSE LET filename == IF Truthy(req.filename) THEN s.name
                          ELSE generate_filename(mode.id)
              w == write_text(ModeDir(mode), filename, io_error)
          IN IF ~w.ok
             THEN Rejected(500, <<"file save failed">>, 1, Set(filename))
             ELSE Plan(0, Set(filename), Set(w.path), 1)

\* main.py ask_ai: the whole handler (it does not publish).  Everything
\* after the mode check runs inside `try: ... except Exception`, which
\* turns every exception, the HTTPException(400) included, into a 500.
main_ask_ai(req, ai, io_error) ==
  LET found == get_mode_by_id(req.mode_id)
      mode == CHOOSE m \in found : TRUE
      filename == IF Truthy(req.filename) THEN req.filename.name
                  ELSE mode.id \o <<"_", "TS", Dot, "md">>
      safe_filename == PathName(filename)
      w == write_text(ModeDir(mode), safe_filename, io_error)
  IN IF found = {} THEN Rejected(400, <<"invalid mode id">>, 0, Unset)
     ELSE IF ai.set THEN UpstreamFailed(ai)
     ELSE IF safe_filename = <<>>
     THEN Rejected(500, ai_error_detail(<<"invalid filename">>), 1, Unset)
     ELSE IF ~w.ok
     THEN Rejected(500, ai_error_detail(<<"oserror">>), 1,
                   Set(safe_filename))
     ELSE Plan(0, Set(safe_filename), Set(w.path), 1)

\* --------------------------------------------------------------- responses
NoResponse ==
  [status |-> 0, success |-> FALSE, git_pushed |-> FALSE,
   git_error |-> NoError, detail |-> <<>>]
\* HTTPException(status_code, detail)
HTTPError(status, detail) ==
  [status |-> status, success |-> FALSE, git_pushed |-> FALSE,
   git_error |-> NoError, detail |-> detail]
\* an unhandled exception (500)
ErrorResponse(status) == HTTPError(status, <<>>)
\* SaveResponse / AskAIResponse(success=True, git_pushed=..., git_error=...)
SuccessResponse(git_pushed, git_error) ==
  [status |-> 200, success |-> TRUE, git_pushed |-> git_pushed,
   git_error |-> git_error, detail |-> <<>>]

\* a failed publish fails the request
after_publish_fatal(outcome) ==
  IF outcome.kind = "raise" \/ ~outcome.ok THEN ErrorResponse(500)
  ELSE SuccessResponse(outcome.ok, outcome.error)

\* `git_success, git_error = await commit_and_push(...)` and the return
after_publish(outcome) ==
  IF outcome.kind = "raise" THEN ErrorResponse(500)
  ELSE SuccessResponse(outcome.ok, outcome.error)

\* ------------------------------------------------------------------- state
VARIABLES
  pc,             \* where the handler of the request in progress stands
  request,        \* the request in progress
  resolved,       \* the file name the filename policy resolved for it
  written,        \* the path of the file it wrote
  ai_calls,       \* upstream language-model calls it made
  publish_calls,  \* times it invoked publish
  procs,          \* the child processes its publish started, in order
  result,         \* what its publish returned
  response,       \* the HTTP response it was given
  dirty,          \* the repository has changes that are not committed
  upstream_error  \* the failure its upstream call ended with, if any

seqvars == <<pc, request, resolved, written, ai_calls, publish_calls, procs,
             result, response, dirty, upstream_error>>

\* The handlers of several requests in flight on the one event loop
VARIABLES
  loop,        \* the request whose handler holds the event-loop thread in
               \* a call that does not yield (0: the loop is free)
  h_pc,        \* where the handler of each request stands
  h_request,   \* the request
  h_written,   \* the path its write_text call was made on
  h_response,  \* the HTTP response it was given
  files,       \* the files under the data root
  writer,      \* the request whose write_text last opened each of them
  index,       \* what git add staged
  head,        \* the tree of the last commit
  remote       \* the tree of the last commit pushed

concvars == <<loop, h_pc, h_request, h_written, h_response, files, writer,
              index, head, remote>>

vars == <<seqvars, concvars>>

Proc(cmd) ==
  [cmd |-> cmd, exited |-> FALSE, rc |-> 0, stdout |-> <<>>, stderr |-> <<>>]
Exited(p, rc, stdout, stderr) ==
  [cmd |-> p.cmd, exited |-> TRUE, rc |-> rc, stdout |-> stdout,
   stderr |-> stderr]

\* ------------------------------------------------- requests in flight
\* how many requests the server has in flight at once
MaxReqs == 2
Reqs == 1..MaxReqs

\* what a request can carry as content
Contents == {<<"p", "q">>, <<"r">>}
\* the completion the upstream language-model API answers with
Answer == <<"ans">>

\* FileService.build_ai_response_content(mode_name, user_input, ai_response)
build_ai_response_content(mode_name, user_input, ai_response) ==
  <<"# ">> \o mode_name \o <<"## in">> \o user_input \o <<"## out">>
    \o ai_response

ConcNames == {NoName, [given |-> TRUE, name |-> <<"a">>],
              [given |-> TRUE, name |-> <<Dot>>]}
ConcSaveRequests ==
  {[app |-> "controllers", route |-> "save", filename |-> f,
    mode_id |-> <<>>, content |-> c] : f \in ConcNames, c \in Contents}
ConcAskRequests ==
  {[app |-> "controllers", route |-> "ask-ai", filename |-> NoName,
    mode_id |-> m, content |-> <<"r">>] : m \in {<<"g">>, UnknownModeId}}
NoConcRequest ==
  [app |-> "", route |-> "", filename |-> NoName, mode_id |-> <<>>,
   content |-> <<>>]

\* the handler of a request up to the call of publish
Handle(req, ai, io_error) ==
  IF req.route = "save" THEN save_file(req, io_error)
  ELSE ask_ai(req, ai, io_error)

\* the content the handler passes to save_text_file
Body(req) ==
  IF req.route = "save" THEN req.content
  ELSE LET mode == CHOOSE m \in Modes : m.id = req.mode_id
       IN build_ai_response_content(mode.name, req.content, Answer)

\* the paths these requests write
ConcPaths ==
  {Handle(req, Unset, FALSE).written.val :
     req \in {q \in ConcSaveRequests \cup ConcAskRequests :
                Handle(q, Unset, FALSE).written.set}}

\* a file, and a tree of files (the working tree, the index, a commit)
Absent == [exists |-> FALSE, data |-> <<>>]
File(data) == [exists |-> TRUE, data |-> data]
EmptyTree == [p \in ConcPaths |-> Absent]

\* how a write can fail: open(path, "w") fails and leaves the file as it
\* was; a write after the open (disk full) leaves the truncated file with
\* a proper prefix of the content
Faults == {"none", "open", "write"}
ProperPrefixes(data) == {SubSeq(data, 1, k) : k \in 0..(Len(data) - 1)}

\* what git commit and git push write to stderr: nothing, "nothing to
\* commit", or another diagnostic
ConcStreams == {<<>>, <<"N">>, <<"x">>}

ConcInit ==
  /\ loop = 0
  /\ h_pc = [r \in Reqs |-> "new"]
  /\ h_request = [r \in Reqs |-> NoConcRequest]
  /\ h_written = [r \in Reqs |-> Unset]
  /\ h_response = [r \in Reqs |-> NoResponse]
  /\ files = EmptyTree
  /\ writer = [p \in ConcPaths |-> 0]
  /\ index = EmptyTree
  /\ head = EmptyTree
  /\ remote = EmptyTree

SeqInit ==
  /\ pc = "idle"
  /\ request = NoRequest
  /\ resolved = Unset
  /\ written = Unset
  /\ ai_calls = 0
  /\ publish_calls = 0
  /\ procs = <<>>
  /\ result = NoOutcome
  /\ response = NoResponse
  /\ dirty \in BOOLEAN
  /\ upstream_error = Unset

Init == SeqInit /\ ConcInit

\* ---------------------------------------------------------------- handlers
\* The handler runs up to its first suspension point.  A write that
\* succeeded leaves the working tree changed unless the file already held
\* that content (changed = FALSE).
Serve(req, plan, changed, publishes) ==
  /\ request' = req
  /\ resolved' = plan.resolved
  /\ written' = plan.written
  /\ ai_calls' = plan.ai_calls
  /\ upstream_error' = plan.upstream_error
  /\ dirty' = (dirty \/ (plan.written.set /\ changed))
  /\ UNCHANGED <<procs, result>>
  /\ IF plan.status # 0
     THEN /\ response' = HTTPError(plan.status, plan.detail)
          /\ pc' = "done"
          /\ UNCHANGED publish_calls
     ELSE IF publishes
     THEN /\ publish_calls' = publish_calls + 1
          /\ pc' = "spawn_add"
          /\ UNCHANGED response
     ELSE /\ response' = SuccessResponse(FALSE, NoError)
          /\ pc' = "done"
          /\ UNCHANGED publish_calls

\* POST /save, controllers/save_controller.py
SaveFile ==
  /\ UNCHANGED concvars
  /\ pc = "idle"
  /\ \E req \in SaveRequests("controllers"), io_error \in BOOLEAN, changed \in BOOLEAN :
       Serve(req, save_file(req, io_error), changed, TRUE)

\* POST /ask-ai, controllers/ai_controller.py
AskAI ==
  /\ UNCHANGED concvars
  /\ pc = "idle"
  /\ \E req \in AskRequests("controllers"), ai \in Upstream,
        io_error \in BOOLEAN, changed \in BOOLEAN :
       Serve(req, ask_ai(req, ai, io_error), changed, TRUE)

\* POST /save, main.py
MainSaveFile ==
  /\ UNCHANGED concvars
  /\ pc = "idle"
  /\ \E req \in SaveRequests("main"), io_error \in BOOLEAN, changed \in BOOLEAN :
       Serve(req, main_save_file(req, io_error), changed, TRUE)

\* POST /ask-ai, main.py
MainAskAI ==
  /\ UNCHANGED concvars
  /\ pc = "idle"
  /\ \E req \in AskRequests("main"), ai \in Upstream,
        io_error \in BOOLEAN, changed \in BOOLEAN :
       Serve(req, main_ask_ai(req, ai, io_error), changed, FALSE)

\* ----------------------------------------------------------------- publish
\* publish returns (or raises) and the handler builds its response
Finish(outcome) ==
  /\ result' = outcome
  /\ response' = after_publish(outcome)
  /\ pc' = "done"

\* await asyncio.create_subprocess_exec("git", cmd, ...): ok = FALSE is an
\* exception (no git executable, no such working directory, ...)
Spawn(cmd, to) ==
  /\ \E ok \in BOOLEAN :
       IF ok THEN /\ procs' = Append(procs, Proc(cmd))
                  /\ pc' = to
                  /\ UNCHANGED <<result, response>>
       ELSE /\ Finish(on_exception("spawn"))
            /\ UNCHANGED procs
  /\ UNCHANGED <<request, resolved, written, ai_calls, publish_calls, dirty,
                 upstream_error>>

\* await process.communicate() returns and the branch after it is taken
Exit(to, rc, stdout, stderr, verdict) ==
  /\ procs' = [procs EXCEPT ![Len(procs)] = Exited(@, rc, stdout, stderr)]
  /\ IF verdict.stop THEN Finish(verdict.outcome)
     ELSE /\ pc' = to
          /\ UNCHANGED <<result, response>>
  /\ UNCHANGED <<request, resolved, written, ai_calls, publish_calls,
                 upstream_error>>

SpawnAdd ==
  /\ UNCHANGED concvars
  /\ pc = "spawn_add"
  /\ Spawn("add", "add")

AddExit ==
  /\ UNCHANGED concvars
  /\ pc = "add"
  /\ \E rc \in RCs : Exit("spawn_commit", rc, <<>>, <<>>, add_verdict(rc))
  /\ UNCHANGED dirty

SpawnCommit ==
  /\ UNCHANGED concvars
  /\ pc = "spawn_commit"
  /\ Spawn("commit", "commit")

\* git commit: it succeeds only when there is something to commit, and then
\* nothing is uncommitted any more.  The output of a child that exited 0 is
\* never read and is left out; of the standard output, which is never read
\* either, only whether it reports "nothing to commit" is kept.
CommitExit ==
  /\ UNCHANGED concvars
  /\ pc = "commit"
  /\ \/ /\ dirty
        /\ Exit("spawn_push", 0, <<>>, <<>>, commit_verdict(0, <<>>))
        /\ dirty' = FALSE
     \/ /\ \E rc \in RCs \ {0}, stdout \in Reports, stderr \in Streams :
             Exit("spawn_push", rc, stdout, stderr, commit_verdict(rc, stderr))
        /\ UNCHANGED dirty

SpawnPush ==
  /\ UNCHANGED concvars
  /\ pc = "spawn_push"
  /\ Spawn("push", "push")

PushExit ==
  /\ UNCHANGED concvars
  /\ pc = "push"
  /\ \/ Exit("done", 0, <<>>, <<>>, push_verdict(0, <<>>))
     \/ \E rc \in RCs \ {0}, stderr \in Streams :
          Exit("done", rc, <<>>, stderr, push_verdict(rc, stderr))
  /\ UNCHANGED dirty

\* the response has been sent; the server takes the next request
NextRequest ==
  /\ UNCHANGED concvars
  /\ pc = "done"
  /\ pc' = "idle"
  /\ request' = NoRequest
  /\ resolved' = Unset
  /\ written' = Unset
  /\ ai_calls' = 0
  /\ upstream_error' = Unset
  /\ publish_calls' = 0
  /\ procs' = <<>>
  /\ result' = NoOutcome
  /\ response' = NoResponse
  /\ UNCHANGED dirty

Next ==
  \/ SaveFile
  \/ AskAI
  \/ MainSaveFile
  \/ MainAskAI
  \/ SpawnAdd
  \/ AddExit
  \/ SpawnCommit
  \/ CommitExit
  \/ SpawnPush
  \/ PushExit
  \/ NextRequest

Spec == Init /\ [][Next]_vars

\* ------------------------------------------ handlers on the event loop
\* A coroutine runs on the one thread of the event loop until it awaits.
\* AIService.ask (the synchronous OpenAI client) and Path.write_text are
\* plain calls inside `async def`: the handler keeps the thread until they
\* return.  create_subprocess_exec and communicate are awaited: the handler
\* is suspended and the loop runs whatever else is ready.

\* the handler of request r ends with response resp
Respond(r, resp) ==
  /\ h_response' = [h_response EXCEPT ![r] = resp]
  /\ h_pc' = [h_pc EXCEPT ![r] = "done"]

\* await asyncio.create_subprocess_exec("git", ...) followed by
\* await process.communicate(): the handler is suspended at `to`, or the
\* spawn raised and publish returns through its except clause
Await(r, to, spawned) ==
  IF spawned
  THEN /\ h_pc' = [h_pc EXCEPT ![r] = to]
       /\ UNCHANGED h_response
  ELSE Respond(r, after_publish(on_exception("spawn")))

\* the branch after communicate(): publish returns, or goes on to the
\* next child process
Branch(r, verdict, to, spawned) ==
  IF verdict.stop THEN Respond(r, after_publish(verdict.outcome))
  ELSE Await(r, to, spawned)

\* save_file is entered: the filename policy, then write_text is called
AcceptSave(r) ==
  /\ loop = 0 /\ h_pc[r] = "new"
  /\ \E req \in ConcSaveRequests :
       LET plan == Handle(req, Unset, FALSE)
       IN /\ h_request' = [h_request EXCEPT ![r] = req]
          /\ IF plan.status = 400
             THEN /\ Respond(r, HTTPError(plan.status, plan.detail))
                  /\ UNCHANGED loop
             ELSE /\ h_pc' = [h_pc EXCEPT ![r] = "writing"]
                  /\ loop' = r
                  /\ UNCHANGED h_response
  /\ UNCHANGED <<h_written, files, writer, index, head, remote>>
  /\ UNCHANGED seqvars

\* ask_ai is entered: the mode lookup, then AIService.ask is called
AcceptAsk(r) ==
  /\ loop = 0 /\ h_pc[r] = "new"
  /\ \E req \in ConcAskRequests :
       /\ h_request' = [h_request EXCEPT ![r] = req]
       /\ IF get_mode_by_id(req.mode_id) = {}
          THEN /\ Respond(r, HTTPError(400, <<"invalid mode id">>))
               /\ UNCHANGED loop
          ELSE /\ h_pc' = [h_pc EXCEPT ![r] = "upstream"]
               /\ loop' = r
               /\ UNCHANGED h_response
  /\ UNCHANGED <<h_written, files, writer, index, head, remote>>
  /\ UNCHANGED seqvars

\* AIService.ask returns or raises; on a completion the filename policy
\* runs and write_text is called
UpstreamReturn(r) ==
  /\ loop = r /\ h_pc[r] = "upstream"
  /\ \E ai \in Upstream :
       LET plan == Handle(h_request[r], ai, FALSE)
       IN IF plan.status # 0
          THEN /\ Respond(r, HTTPError(plan.status, plan.detail))
               /\ loop' = 0
          ELSE /\ h_pc' = [h_pc EXCEPT ![r] = "writing"]
               /\ UNCHANGED <<loop, h_response>>
  /\ UNCHANGED <<h_request, h_written, files, writer, index, head, remote>>
  /\ UNCHANGED seqvars

\* write_text returns or raises OSError; after a write that succeeded the
\* handler calls publish and is suspended on git add
WriteReturn(r) ==
  /\ loop = r /\ h_pc[r] = "writing"
  /\ loop' = 0
  /\ \E fault \in Faults, spawned \in BOOLEAN :
       LET req  == h_request[r]
           plan == Handle(req, Unset, fault # "none")
           path == Handle(req, Unset, FALSE).written.val
       IN IF plan.status = 0
          THEN /\ files' = [files EXCEPT ![path] = File(Body(req))]
               /\ writer' = [writer EXCEPT ![path] = r]
               /\ h_written' = [h_written EXCEPT ![r] = plan.written]
               /\ Await(r, "add", spawned)
          ELSE /\ Respond(r, HTTPError(plan.status, plan.detail))
               /\ UNCHANGED h_written
               /\ IF fault = "write"
                  THEN /\ \E part \in ProperPrefixes(Body(req)) :
                            files' = [files EXCEPT ![path] = File(part)]
                       /\ writer' = [writer EXCEPT ![path] = r]
                  ELSE UNCHANGED <<files, writer>>
  /\ UNCHANGED <<h_request, index, head, remote>>
  /\ UNCHANGED seqvars

\* git add . exits: with code 0 it staged the working tree as it is now
AddExited(r) ==
  /\ loop = 0 /\ h_pc[r] = "add"
  /\ \E rc \in RCs, spawned \in BOOLEAN :
       /\ index' = IF rc = 0 THEN files ELSE index
       /\ Branch(r, add_verdict(rc), "commit", spawned)
  /\ UNCHANGED <<loop, h_request, h_written, files, writer, head, remote>>
  /\ UNCHANGED seqvars

\* git commit exits: with code 0 it committed a staged change; with
\* nothing staged that the last commit lacks it exits non-zero
CommitExited(r) ==
  /\ loop = 0 /\ h_pc[r] = "commit"
  /\ \E rc \in RCs, stderr \in ConcStreams, spawned \in BOOLEAN :
       /\ rc = 0 => (index # head /\ stderr = <<>>)
       /\ (rc # 0 /\ index # head) => ~HasPhrase(stderr)
       /\ head' = IF rc = 0 THEN index ELSE head
       /\ Branch(r, commit_verdict(rc, stderr), "push", spawned)
  /\ UNCHANGED <<loop, h_request, h_written, files, writer, index, remote>>
  /\ UNCHANGED seqvars

\* git push exits: with code 0 the remote has the last commit
PushExited(r) ==
  /\ loop = 0 /\ h_pc[r] = "push"
  /\ \E rc \in RCs, stderr \in ConcStreams :
       /\ rc = 0 => stderr = <<>>
       /\ remote' = IF rc = 0 THEN head ELSE remote
       /\ Respond(r, after_publish(push_verdict(rc, stderr).outcome))
  /\ UNCHANGED <<loop, h_request, h_written, files, writer, index, head>>
  /\ UNCHANGED seqvars

\* what the handler of request r can do next
Step(r) ==
  \/ AcceptSave(r)
  \/ AcceptAsk(r)
  \/ UpstreamReturn(r)
  \/ WriteReturn(r)
  \/ AddExited(r)
  \/ CommitExited(r)
  \/ PushExited(r)

ConcNext == \E r \in Reqs : Step(r)

SpecConc == Init /\ [][ConcNext]_vars

\* ================================================================== claims
Started(cmd) == \E i \in 1..Len(procs) : procs[i].cmd = cmd
ExitedProc(cmd) == \E i \in 1..Len(procs) : procs[i].cmd = cmd /\ procs[i].exited
ProcOf(cmd) == procs[CHOOSE i \in 1..Len(procs) : procs[i].cmd = cmd]
ValidUTF8(bytes) == \A i \in 1..Len(bytes) : bytes[i] # "BAD"
Success == Returned(TRUE, NoError)

\* C1: the child processes of a publish run are add, commit, push in that
\* order; each one is started only after the one before it exited with
\* code 0; when add exits non-zero publish returns (false, "git add
\* failed") and no other process is started.
C1_StrictOrder ==
  /\ Len(procs) <= Len(Steps)
  /\ \A i \in 1..Len(procs) : procs[i].cmd = Steps[i]
  /\ \A i \in 2..Len(procs) : procs[i-1].exited /\ procs[i-1].rc = 0
  /\ (ExitedProc("add") /\ ProcOf("add").rc # 0) =>
       /\ result = Returned(FALSE, Error("git add failed", <<>>))
       /\ Len(procs) = 1

C1_Witness ==
  /\ Len(procs) = 3
  /\ \A i \in 1..3 : procs[i].exited

C3_CleanTree ==
  (ExitedProc("commit") /\ ProcOf("commit").rc # 0 /\ ~dirty
     /\ (HasPhrase(ProcOf("commit").stdout)
           \/ HasPhrase(ProcOf("commit").stderr))) =>
    /\ result = Success
    /\ ~Started("push")

AllExitedZero ==
  /\ Len(procs) = 3
  /\ \A i \in 1..3 : procs[i].exited /\ procs[i].rc = 0
ReportedNothingToCommit ==
  /\ ExitedProc("add") /\ ProcOf("add").rc = 0
  /\ ExitedProc("commit") /\ ProcOf("commit").rc # 0
  /\ (HasPhrase(ProcOf("commit").stdout) \/ HasPhrase(ProcOf("commit").stderr))

\* C4: a completed publish returns (true, None) exactly when add, commit
\* and push all exited 0 or add exited 0 and commit reported "nothing to
\* commit"; otherwise it returns false with an error naming the first
\* failing step: "git commit failed: <stderr>" (push not attempted) or
\* "git push failed: <stderr>".
C4_Outcome ==
  (result.kind = "return") =>
    /\ (result = Success) <=> (AllExitedZero \/ ReportedNothingToCommit)
    /\ ~(AllExitedZero \/ ReportedNothingToCommit) =>
         /\ ~result.ok /\ ~result.error.none
         /\ (ExitedProc("commit") /\ ProcOf("commit").rc # 0) =>
              /\ result.error =
                   Error("git commit failed", ProcOf("commit").stderr)
              /\ ~Started("push")
         /\ (ExitedProc("push") /\ ProcOf("push").rc # 0) =>
              result.error = Error("git push failed", ProcOf("push").stderr)

\* an exception was raised inside publish: a child process could not be
\* started, or the stderr of a failed child could not be decoded
ExceptionInPublish ==
  /\ publish_calls > 0
  /\ pc = "done"
  /\ \/ procs = <<>>
     \/ /\ procs # <<>>
        /\ LET last == procs[Len(procs)]
           IN \/ last.rc = 0 /\ last.cmd # "push"
              \/ last.rc # 0 /\ last.cmd # "add" /\ ~ValidUTF8(last.stderr)

\* C5: publish never raises: an exception at any point of the sequence is
\* returned as (false, "git operation error: <message>"), and the handler
\* that called publish always receives a pair.
C5_NeverRaises ==
  /\ result.kind # "raise"
  /\ (publish_calls > 0 /\ pc = "done") => result.kind = "return"
  /\ ExceptionInPublish =>
       /\ ~result.ok
       /\ ~result.error.none
       /\ result.error.msg = "git operation error"

C5_Witness ==
  /\ ExceptionInPublish
  /\ Started("commit")
  /\ result = Returned(FALSE, Error("git operation error", <<"decode">>))

\* C6: a request whose file write succeeded is answered 200 with
\* success=true whatever publish returned; a failed publish only shows as
\* git_pushed=false and git_error in that response.
C6_SaveSucceeds ==
  (pc = "done" /\ written.set) =>
    /\ response.status = 200
    /\ response.success
    /\ (publish_calls > 0) =>
         /\ result.kind = "return"
         /\ response.git_pushed = result.ok
         /\ response.git_error = result.error
    /\ (publish_calls > 0 /\ ~result.ok) =>
         /\ ~response.git_pushed
         /\ ~response.git_error.none

C6_Witness ==
  /\ pc = "done"
  /\ written.set
  /\ ExitedProc("push")
  /\ ProcOf("push").rc # 0
  /\ response.status = 200
  /\ ~response.git_pushed

\* C7: publish is invoked exactly once, after the write, by every request
\* whose file write succeeded, and never by a request that ends without a
\* successful write.
C7_PublishOnce ==
  /\ publish_calls > 0 => written.set
  /\ pc = "done" => publish_calls = (IF written.set THEN 1 ELSE 0)

\* the last component of a name: the last maximal separator-free run of
\* characters that is not ".", "" when there is none
FinalSegment(s) ==
  LET IsRun(i, j) ==
        /\ i <= j
        /\ \A k \in i..j : s[k] # Sep
        /\ (i = 1 \/ s[i-1] = Sep)
        /\ (j = Len(s) \/ s[j+1] = Sep)
        /\ SubSeq(s, i, j) # <<Dot>>
      runs == {r \in (1..Len(s)) \X (1..Len(s)) : IsRun(r[1], r[2])}
  IN IF runs = {} THEN <<>>
     ELSE LET r == CHOOSE x \in runs : \A y \in runs : y[2] <= x[2]
          IN SubSeq(s, r[1], r[2])

\* C8: the file name the filename policy resolves contains no path
\* separator, whatever the caller-supplied name and the default prefix,
\* and a caller-supplied name resolves to exactly its final path segment.
C8_NoSeparator ==
  resolved.set =>
    /\ ~HasSep(resolved.val)
    /\ Truthy(request.filename) =>
         resolved.val = FinalSegment(request.filename.name)

\* the caller-supplied names "", ".", ".." and those ending in a separator
InvalidNames ==
  {<<>>, <<Dot>>, <<Dot, Dot>>}
    \cup {n \in Names : n # <<>> /\ n[Len(n)] = Sep}

\* C9: a POST /save whose caller-supplied file name is "", ".", ".." or a
\* pure directory path is answered 400 (InvalidFilename) and writes no file.
C9_InvalidFilename ==
  (pc = "done" /\ request.route = "save" /\ request.filename.given
     /\ request.filename.name \in InvalidNames) =>
    /\ response.status = 400
    /\ ~written.set

\* C10: the file a POST /save writes is a direct child of the data root
\* and the file a POST /ask-ai writes is a direct child of the save
\* subdirectory of its mode; no file is written outside the data root.
C10_InsideDataRoot ==
  written.set =>
    /\ Len(written.val) > Len(DATA_DIR)
    /\ SubSeq(written.val, 1, Len(DATA_DIR)) = DATA_DIR
    /\ request.route = "save" => Parent(written.val) = DATA_DIR
    /\ request.route = "ask-ai" =>
         \E m \in get_mode_by_id(request.mode_id) :
           Parent(written.val) = ModeDir(m)

\* C11: a POST /ask-ai whose mode_id matches no mode of the registry is
\* answered 400; it makes no upstream call, writes no file and attempts no
\* publish.
C11_UnknownMode ==
  (pc = "done" /\ request.route = "ask-ai"
     /\ \A m \in Modes : m.id # request.mode_id) =>
    /\ response.status = 400
    /\ ai_calls = 0
    /\ ~written.set
    /\ publish_calls = 0
    /\ procs = <<>>

C11_Witness ==
  /\ pc = "done"
  /\ request.route = "ask-ai"
  /\ request.mode_id = UnknownModeId
  /\ response.status = 400
  /\ response.detail = <<"invalid mode id">>

\* sub occurs in text
Contains(text, sub) ==
  \E i \in 0..(Len(text) - Len(sub)) : SubSeq(text, i + 1, i + Len(sub)) = sub

\* C12: when the upstream call of a POST /ask-ai fails, the request is
\* answered 500 with a message that contains the diagnostic of the
\* failure; it writes no file and attempts no publish.
C12_UpstreamFailure ==
  (pc = "done" /\ upstream_error.set) =>
    /\ response.status = 500
    /\ Contains(response.detail, upstream_error.val)
    /\ ~written.set
    /\ publish_calls = 0
    /\ procs = <<>>

C12_Witness ==
  /\ pc = "done"
  /\ request.route = "ask-ai"
  /\ ai_calls = 1
  /\ upstream_error = Set(<<"quota">>)
  /\ response.status = 500

\* C13: a request rejected for an invalid file name is answered 400 and
\* has had no side effect: no upstream call, no file written, no publish.
C13_NoSideEffects ==
  (pc = "done" /\ Contains(response.detail, <<"invalid filename">>)) =>
    /\ response.status = 400
    /\ ai_calls = 0
    /\ ~written.set
    /\ publish_calls = 0

\* C16: in every outcome of publish, and in every 200 response of a
\* request that ran publish, git_error is None exactly when git_pushed is
\* true.
C16_ErrorIffNotPushed ==
  /\ (result.kind = "return") => (result.error.none <=> result.ok)
  /\ (pc = "done" /\ response.status = 200 /\ publish_calls > 0) =>
       (response.git_error.none <=> response.git_pushed)

C16_Witness ==
  /\ pc = "done"
  /\ publish_calls > 0
  /\ response.status = 200
  /\ ExitedProc("add")
  /\ ProcOf("add").rc # 0
  /\ ~response.git_pushed
  /\ response.git_error = Error("git add failed", <<>>)


\* the handler of request r is waiting: on the upstream call, on file I/O,
\* or on a child process of publish
Waiting(r) == h_pc[r] \in {"upstream", "writing", "add", "commit", "push"}

\* C14: while the handler of one request is waiting on the upstream
\* language-model call, on file I/O or on a publish child process, every
\* other request in flight can be accepted or take its next step.
C14_OthersProgress ==
  \A r \in Reqs : \A q \in Reqs \ {r} :
    (Waiting(r) /\ h_pc[q] # "done") => ENABLED Step(q)

\* C15: after any interleaving of requests, each file under the data root
\* holds exactly the complete content passed by the request that last
\* wrote that path, never a part of it.
C15_CompleteContent ==
  \A p \in ConcPaths :
    files[p].exists =>
      /\ writer[p] \in Reqs
      /\ files[p].data = Body(h_request[writer[p]])

\* C17: a response with git_pushed = true implies that the file the request
\* wrote is in the tree of a commit whose push completed successfully.
C17_PushedFileOnRemote ==
  \A r \in Reqs :
    (h_pc[r] = "done" /\ h_response[r].status = 200
       /\ h_response[r].git_pushed) =>
      /\ h_written[r].set
      /\ remote[h_written[r].val].exists
====
